---- MODULE Spec2Model ----
(***************************************************************************)
(* The ATM state machine of final-project/state-machine-atm/src/atm.rs.    *)
(*                                                                         *)
(* The machine state is the struct Atm (cash_inside, expected_pin_hash,    *)
(* keystroke_register); expected_pin_hash holds the authentication phase   *)
(* Auth.  next_state matches on the phase and on the transition.  Three    *)
(* of its arms yield a bare Auth value (Auth::Authenticating(..),          *)
(* Auth::Authenticated, Auth::Waiting): such an arm assigns the phase and  *)
(* nothing else, so the other two fields of the state keep their values.   *)
(* The only place that assigns keystroke_register or cash_inside is        *)
(* with_cash_inside, reached from the successful-withdrawal branch.        *)
(*                                                                         *)
(* Values: an Auth is a tuple <<"Waiting">>, <<"Authenticating", c>> or    *)
(* <<"Authenticated">>; an Action is <<"SwipeCard", c>> or                 *)
(* <<"PressKey", k>>; an Option<u64> is <<>> (None) or <<v>> (Some(v)).    *)
(***************************************************************************)
EXTENDS Integers, Sequences, FiniteSets, TLC

\* Longest keystroke register drawn for a starting state.
MaxLen == 2
\* Largest cash inventory drawn for a starting state.
MaxCash == 11
\* Number of distinct 64-bit fingerprint values modelled.
NumCredentials == 2
\* Width of the unsigned amount type, scaled down from 64 bits.
AmountBits == 5

\* u64::MAX at the modelled width.
U64_MAX == 2^AmountBits - 1

\* enum Key
Digits == {"One", "Two", "Three", "Four"}
Key == Digits \cup {"Enter"}

\* The u64 values a card or a hasher can carry.
Credentials == 0 .. (NumCredentials - 1)

\* enum Auth
Waiting == <<"Waiting">>
Authenticated == <<"Authenticated">>
Authenticating(pin_hash) == <<"Authenticating", pin_hash>>
Auth == {Waiting, Authenticated} \cup {Authenticating(c) : c \in Credentials}

\* enum Action
SwipeCardOf(pin_hash) == <<"SwipeCard", pin_hash>>
PressKeyOf(key) == <<"PressKey", key>>
Action == {SwipeCardOf(c) : c \in Credentials} \cup {PressKeyOf(k) : k \in Key}

\* Vec<Key> up to the modelled length.
Registers == UNION {[1 .. n -> Key] : n \in 0 .. MaxLen}

\* The PINs a card can have: the non-empty digit sequences.
Pins == UNION {[1 .. n -> Digits] : n \in 1 .. MaxLen}

\* Position of a key on the keypad.
KeyIndex(key) ==
    CASE key = "One" -> 1 [] key = "Two" -> 2 [] key = "Three" -> 3
      [] key = "Four" -> 4 [] key = "Enter" -> 5

\* crate::hash of a key sequence: a deterministic fingerprint of the keys
\* in order, folded into the modelled fingerprint range.
RECURSIVE HashKeys(_, _, _)
HashKeys(keys, i, acc) ==
    IF i > Len(keys) THEN acc
    ELSE HashKeys(keys, i + 1, (acc * 5 + KeyIndex(keys[i])) % NumCredentials)

crate_hash(keys) == HashKeys(keys, 1, Len(keys) % NumCredentials)

\* What next_state asks DefaultHasher to hash: an Authenticating phase value.
Hashable == {Authenticating(c) : c \in Credentials}

\* The functions DefaultHasher may compute.  next_state only compares the
\* fingerprint of Authenticating(c) with c, so for each c one value other
\* than c stands for all of them.
Hashers ==
    {h \in [Hashable -> Credentials] :
        \A c \in Credentials : h[Authenticating(c)] \in {c, (c + 1) % NumCredentials}}

VARIABLES
    cash_inside,         \* Atm.cash_inside
    expected_pin_hash,   \* Atm.expected_pin_hash, the phase
    keystroke_register,  \* Atm.keystroke_register
    hasher,              \* the function DefaultHasher computes; fixed for a run
    starting_state,      \* argument of the last next_state call
    t,                   \* transition of the last next_state call
    session              \* what an observer of the events knows of the session

vars == <<cash_inside, expected_pin_hash, keystroke_register, hasher, starting_state, t,
          session>>

\* struct Atm
Atm(cash, auth, register) ==
    [cash_inside |-> cash, expected_pin_hash |-> auth, keystroke_register |-> register]

\* The current state as a struct.
atm == Atm(cash_inside, expected_pin_hash, keystroke_register)

\* impl From<Key> for &str, a string being its sequence of characters.
KeyStr(key) ==
    CASE key = "One" -> <<"1">>
      [] key = "Two" -> <<"2">>
      [] key = "Three" -> <<"3">>
      [] key = "Four" -> <<"4">>
      [] key = "Enter" -> <<"E", "n", "t", "e", "r">>

\* Value of a decimal digit character, -1 for any other character.
DigitValue(ch) ==
    CASE ch = "0" -> 0 [] ch = "1" -> 1 [] ch = "2" -> 2 [] ch = "3" -> 3
      [] ch = "4" -> 4 [] ch = "5" -> 5 [] ch = "6" -> 6 [] ch = "7" -> 7
      [] ch = "8" -> 8 [] ch = "9" -> 9 [] OTHER -> 0 - 1

\* str::parse::<u64>: None on the empty string, on a non-digit character
\* and on a value above u64::MAX; the value is accumulated left to right
\* and the scan stops at the first failure.
RECURSIVE ParseFrom(_, _, _)
ParseFrom(str, i, acc) ==
    IF i > Len(str) THEN <<acc>>
    ELSE IF DigitValue(str[i]) < 0 THEN <<>>
    ELSE IF acc * 10 + DigitValue(str[i]) > U64_MAX THEN <<>>
    ELSE ParseFrom(str, i + 1, acc * 10 + DigitValue(str[i]))

parse(str) == IF Len(str) = 0 THEN <<>> ELSE ParseFrom(str, 1, 0)

\* Variant of amount_str that skips an Enter instead of stopping at it.
RECURSIVE amount_str_continue(_, _)
amount_str_continue(register, i) ==
    IF i > Len(register) THEN <<>>
    ELSE IF register[i] = "Enter" THEN amount_str_continue(register, i + 1)
    ELSE KeyStr(register[i]) \o amount_str_continue(register, i + 1)

\* The loop of calculate_withdrawal_amount: push each key's string until
\* the first Enter.
RECURSIVE amount_str(_, _)
amount_str(register, i) ==
    IF i > Len(register) THEN <<>>
    ELSE IF register[i] = "Enter" THEN <<>>
    ELSE KeyStr(register[i]) \o amount_str(register, i + 1)

calculate_withdrawal_amount(register) == parse(amount_str(register, 1))

\* Atm::with_cash_inside: a new Atm with the given cash, the receiver's
\* phase and an empty register.
with_cash_inside(self, cash) == Atm(cash, self.expected_pin_hash, <<>>)

\* A bare Auth value produced by an arm: the phase is assigned, the rest
\* of the state is left alone.
WithAuth(s, auth) == [s EXCEPT !.expected_pin_hash = auth]

\* Variant of SwipeArm that builds its result with with_cash_inside, which
\* empties the register.
SwipeArm_reset(s, pin_hash) ==
    with_cash_inside(WithAuth(s, Authenticating(pin_hash)), s.cash_inside)

\* (Auth::Waiting, Action::SwipeCard(pin_hash)) => Auth::Authenticating(*pin_hash)
SwipeArm(s, pin_hash) == WithAuth(s, Authenticating(pin_hash))

\* hasher.finish() after starting_state.hash(&mut hasher)
current_hash(s) == hasher[s.expected_pin_hash]

\* Variant of VerifyArm that accepts without comparing.
VerifyArm_always(s) == WithAuth(s, Authenticated)

\* (Auth::Authenticating(pin_hash), Action::PressKey(Key::Enter))
VerifyArm(s) ==
    IF current_hash(s) = s.expected_pin_hash[2]
    THEN WithAuth(s, Authenticated)
    ELSE WithAuth(s, Waiting)

\* Variant of SufficientCash with a strict comparison.
SufficientCash_strict(cash, amount) == cash > amount

\* Variant of SufficientCash that skips the comparison.
SufficientCash_unchecked(cash, amount) == TRUE

\* starting_state.cash_inside >= amount
SufficientCash(cash, amount) == cash >= amount

\* Variant of WithdrawArm that dispenses what is left when the amount
\* exceeds the inventory.
WithdrawArm_drain(s) ==
    LET amount == calculate_withdrawal_amount(s.keystroke_register) IN
    IF amount # <<>>
    THEN IF SufficientCash(s.cash_inside, amount[1])
         THEN with_cash_inside(WithAuth(s, Waiting), s.cash_inside - amount[1])
         ELSE with_cash_inside(WithAuth(s, Waiting), 0)
    ELSE WithAuth(s, Waiting)

\* Variant of WithdrawArm that ignores Enter when no amount was parsed.
WithdrawArm_stay(s) ==
    LET amount == calculate_withdrawal_amount(s.keystroke_register) IN
    IF amount # <<>>
    THEN IF SufficientCash(s.cash_inside, amount[1])
         THEN with_cash_inside(WithAuth(s, Waiting), s.cash_inside - amount[1])
         ELSE WithAuth(s, Waiting)
    ELSE s

\* (Auth::Authenticated, Action::PressKey(Key::Enter))
WithdrawArm(s) ==
    LET amount == calculate_withdrawal_amount(s.keystroke_register) IN
    IF amount # <<>>
    THEN IF SufficientCash(s.cash_inside, amount[1])
         THEN with_cash_inside(WithAuth(s, Waiting), s.cash_inside - amount[1])
         ELSE WithAuth(s, Waiting)
    ELSE WithAuth(s, Waiting)

\* Variant of DefaultArm in which a swipe replaces a stored credential.
DefaultArm_reswipe(s, tr) ==
    IF tr[1] = "SwipeCard" /\ s.expected_pin_hash[1] = "Authenticating"
    THEN WithAuth(s, Authenticating(tr[2]))
    ELSE s

\* Variant of DefaultArm in which a key press is recorded in the register.
DefaultArm_record(s, tr) ==
    IF tr[1] = "PressKey"
    THEN [s EXCEPT !.keystroke_register = Append(@, tr[2])]
    ELSE s

\* Variant of DefaultArm in which a swipe in Authenticated starts a new
\* authentication.
DefaultArm_newcard(s, tr) ==
    IF tr[1] = "SwipeCard" /\ s.expected_pin_hash = Authenticated
    THEN WithAuth(s, Authenticating(tr[2]))
    ELSE s

\* _ => starting_state.clone()
DefaultArm(s, tr) == s

\* StateMachine::next_state for Atm
next_state(s, tr) ==
    CASE s.expected_pin_hash = Waiting /\ tr[1] = "SwipeCard" -> SwipeArm(s, tr[2])
      [] s.expected_pin_hash[1] = "Authenticating" /\ tr = PressKeyOf("Enter") -> VerifyArm(s)
      [] s.expected_pin_hash = Authenticated /\ tr = PressKeyOf("Enter") -> WithdrawArm(s)
      [] OTHER -> DefaultArm(s, tr)

TypeOK ==
    /\ cash_inside \in 0 .. MaxCash
    /\ expected_pin_hash \in Auth
    /\ keystroke_register \in Seq(Key)
    /\ hasher \in [Hashable -> Credentials]

\* An observer's record of a session.  stage is "idle" (no card), "pin"
\* (a card was swiped in Waiting), "amount" (Enter was pressed and the
\* fingerprint check of the swiped card succeeded) or "done" (Enter was
\* pressed again); card is the swiped credential, cash the inventory at the
\* swipe, pin_typed whether a digit was pressed in stage "pin", amount the
\* digits pressed in stage "amount", pure whether no card was swiped since.
Idle ==
    [stage |-> "idle", card |-> 0, cash |-> 0, pin_typed |-> FALSE,
     amount |-> <<>>, pure |-> TRUE]

\* A state as the tests build it: any phase, any register, any inventory.
Init ==
    /\ cash_inside \in 0 .. MaxCash
    /\ expected_pin_hash \in Auth
    /\ keystroke_register \in Registers
    /\ hasher \in Hashers
    /\ starting_state = atm
    /\ t = <<"None">>
    /\ session = Idle

\* The driver replaces its state by next_state(state, tr).
Apply(tr) ==
    LET end == next_state(atm, tr) IN
    /\ cash_inside' = end.cash_inside
    /\ expected_pin_hash' = end.expected_pin_hash
    /\ keystroke_register' = end.keystroke_register
    /\ starting_state' = atm
    /\ t' = tr
    /\ UNCHANGED hasher

SwipeCard == \E c \in Credentials : Apply(SwipeCardOf(c))

PressKey == \E k \in Key : Apply(PressKeyOf(k))

Next ==
    \/ SwipeCard /\ UNCHANGED session
    \/ PressKey /\ UNCHANGED session

Spec == Init /\ [][Next]_vars

\* The session record after the event tr, from the events alone.
Observe(tr) ==
    IF session.stage \in {"idle", "done"}
    THEN IF tr[1] = "SwipeCard"
         THEN [stage |-> "pin", card |-> tr[2], cash |-> cash_inside,
               pin_typed |-> FALSE, amount |-> <<>>, pure |-> TRUE]
         ELSE Idle
    ELSE IF tr[1] = "SwipeCard" THEN [session EXCEPT !.pure = FALSE]
    ELSE IF session.stage = "pin"
    THEN IF tr[2] # "Enter" THEN [session EXCEPT !.pin_typed = TRUE]
         ELSE IF hasher[Authenticating(session.card)] = session.card
         THEN [session EXCEPT !.stage = "amount"]
         ELSE Idle
    ELSE IF tr[2] # "Enter" THEN [session EXCEPT !.amount = Append(@, tr[2])]
         ELSE [session EXCEPT !.stage = "done"]

\* The machine as the driver creates it: phase Waiting (Auth::default()),
\* an empty register and the initial inventory.
InitRun ==
    /\ cash_inside \in 0 .. MaxCash
    /\ expected_pin_hash = Waiting
    /\ keystroke_register = <<>>
    /\ hasher \in Hashers
    /\ starting_state = atm
    /\ t = <<"None">>
    /\ session = Idle

SwipeCardRun ==
    \E c \in Credentials :
        /\ Apply(SwipeCardOf(c))
        /\ session' = Observe(SwipeCardOf(c))

\* The amount digits of one session are observed up to MaxLen of them.
PressKeyRun ==
    \E k \in Key :
        /\ (session.stage = "amount" /\ k # "Enter") => Len(session.amount) < MaxLen
        /\ Apply(PressKeyOf(k))
        /\ session' = Observe(PressKeyOf(k))

NextRun == SwipeCardRun \/ PressKeyRun

SpecRun == InitRun /\ [][NextRun]_vars

(***************************************************************************)
(* Properties.  Each is stated over the last call of next_state: its       *)
(* argument starting_state, its transition t and its result atm.           *)
(***************************************************************************)

\* Decimal digit a digit key stands for.
DigitOf(key) ==
    CASE key = "One" -> 1 [] key = "Two" -> 2 [] key = "Three" -> 3 [] key = "Four" -> 4

\* Number written by a sequence of digit keys, most significant first.
RECURSIVE Decimal(_)
Decimal(keys) ==
    IF keys = <<>> THEN 0
    ELSE Decimal(SubSeq(keys, 1, Len(keys) - 1)) * 10 + DigitOf(keys[Len(keys)])

\* The keys of a register that precede its first Enter.
BeforeEnter(register) ==
    LET enters == {i \in 1 .. Len(register) : register[i] = "Enter"} IN
    IF enters = {} THEN register
    ELSE SubSeq(register, 1, (CHOOSE i \in enters : \A j \in enters : i <= j) - 1)

\* A register states an amount when at least one digit precedes its first
\* Enter and the number they write fits the amount type.
HasAmount(register) ==
    /\ BeforeEnter(register) # <<>>
    /\ Decimal(BeforeEnter(register)) <= U64_MAX

AmountOf(register) == Decimal(BeforeEnter(register))

Called == t # <<"None">>
EnterPressed == t = PressKeyOf("Enter")
DigitPressed == t[1] = "PressKey" /\ t[2] \in Digits
Swiped == t[1] = "SwipeCard"
WasWaiting == starting_state.expected_pin_hash = Waiting
WasAuthenticating == starting_state.expected_pin_hash[1] = "Authenticating"
WasAuthenticated == starting_state.expected_pin_hash = Authenticated
R0 == starting_state.keystroke_register
C0 == starting_state.cash_inside

\* C1: Enter in phase Authenticated with a register that states an amount
\* A <= cash_inside (A = cash_inside included) yields phase Waiting, an
\* empty register and cash_inside lowered by A.
C1_WithdrawWithinFunds ==
    (WasAuthenticated /\ EnterPressed /\ HasAmount(R0) /\ AmountOf(R0) <= C0)
        => atm = Atm(C0 - AmountOf(R0), Waiting, <<>>)

\* C1 witness: the whole inventory was withdrawn with a two-digit amount.
C1_Witness ==
    /\ WasAuthenticated /\ EnterPressed /\ HasAmount(R0)
    /\ Len(R0) = 2 /\ BeforeEnter(R0) = R0
    /\ AmountOf(R0) = C0
    /\ atm = Atm(0, Waiting, <<>>)

\* C2: Enter in phase Authenticated with a register that states an amount
\* A > cash_inside yields phase Waiting, an empty register and cash_inside
\* unchanged.
C2_WithdrawTooMuch ==
    (WasAuthenticated /\ EnterPressed /\ HasAmount(R0) /\ AmountOf(R0) > C0)
        => atm = Atm(C0, Waiting, <<>>)

\* C3: cash_inside is never negative and never above its value before the
\* last step; a step lowers it only on Enter in phase Authenticated, by a
\* stated amount that was <= the cash_inside before the step.
C3_CashBounded ==
    /\ cash_inside >= 0
    /\ cash_inside <= C0
    /\ cash_inside < C0 =>
        /\ WasAuthenticated /\ EnterPressed /\ HasAmount(R0)
        /\ AmountOf(R0) <= C0
        /\ cash_inside = C0 - AmountOf(R0)

\* C3 witness: a step lowered cash_inside and left some cash behind.
C3_Witness == Called /\ cash_inside < C0 /\ cash_inside > 0

\* C4: Enter in phase Authenticating(h), where h is crate::hash of a PIN and
\* the register holds that PIN, yields phase Authenticated, an empty
\* register and cash_inside unchanged.
C4_CorrectPin ==
    (WasAuthenticating /\ EnterPressed /\ R0 \in Pins
        /\ starting_state.expected_pin_hash[2] = crate_hash(R0))
        => atm = Atm(C0, Authenticated, <<>>)

\* C5: Enter in phase Authenticating(h) with a register whose crate::hash is
\* not h yields phase Waiting, an empty register and cash_inside unchanged.
C5_WrongPin ==
    (WasAuthenticating /\ EnterPressed
        /\ starting_state.expected_pin_hash[2] # crate_hash(R0))
        => atm = Atm(C0, Waiting, <<>>)

\* C6: Enter in phase Authenticating(c) yields phase Authenticated and an
\* empty register when the fingerprint of Authenticating(c) equals c, and
\* phase Waiting otherwise, whatever the register holds.
C6_VerifyByPhaseHash ==
    (WasAuthenticating /\ EnterPressed) =>
        IF hasher[starting_state.expected_pin_hash] = starting_state.expected_pin_hash[2]
        THEN expected_pin_hash = Authenticated /\ keystroke_register = <<>>
        ELSE expected_pin_hash = Waiting

\* C7: a digit key d pressed in phase Authenticating or Authenticated with
\* register R yields register R with d appended, phase and cash_inside
\* unchanged.
C7_DigitAppended ==
    ((WasAuthenticating \/ WasAuthenticated) /\ DigitPressed)
        => atm = Atm(C0, starting_state.expected_pin_hash, Append(R0, t[2]))

\* C8: a card with credential c swiped in phase Waiting yields phase
\* Authenticating(c), register and cash_inside unchanged.
C8_SwipeInWaiting ==
    (WasWaiting /\ Swiped) => atm = Atm(C0, Authenticating(t[2]), R0)

\* C8 witness: a card was swiped in Waiting over a non-empty register.
C8_Witness ==
    /\ WasWaiting /\ Swiped /\ R0 # <<>>
    /\ atm = Atm(C0, Authenticating(t[2]), R0)

\* C9: a card swiped in phase Authenticating(c), with the same credential
\* or another, returns the input state.
C9_SwipeWhileAuthenticating ==
    (WasAuthenticating /\ Swiped) => atm = starting_state

\* C9 witness: another card was swiped over a non-empty register.
C9_Witness ==
    /\ WasAuthenticating /\ Swiped
    /\ t[2] # starting_state.expected_pin_hash[2]
    /\ R0 # <<>>
    /\ expected_pin_hash = starting_state.expected_pin_hash

\* C10: any key pressed in phase Waiting returns the input state.
C10_KeyInWaiting ==
    (WasWaiting /\ t[1] = "PressKey") => atm = starting_state

\* C10 witness: a digit was pressed in Waiting and the register is still
\* empty.
C10_Witness ==
    /\ WasWaiting /\ DigitPressed
    /\ expected_pin_hash = Waiting
    /\ keystroke_register = <<>>

\* C11: in a run from the initial state the register is empty whenever the
\* phase is Waiting, and it is empty right after every Enter pressed in
\* phase Authenticating or Authenticated.
C11_RegisterEmptyOutsideSession ==
    /\ expected_pin_hash = Waiting => keystroke_register = <<>>
    /\ (EnterPressed /\ (WasAuthenticating \/ WasAuthenticated)) => keystroke_register = <<>>

\* C11 witness: a session in which digits were pressed ended with Enter in
\* Authenticated, in Waiting with an empty register.
C11_Witness ==
    /\ EnterPressed /\ WasAuthenticated
    /\ session.stage = "done" /\ session.pin_typed /\ session.amount # <<>>
    /\ expected_pin_hash = Waiting /\ keystroke_register = <<>>

\* C12: Enter in phase Authenticated with a register that states no valid
\* amount (the empty register included) yields phase Waiting, an empty
\* register and cash_inside unchanged.
C12_NoAmountRejected ==
    (WasAuthenticated /\ EnterPressed /\ ~HasAmount(R0))
        => atm = Atm(C0, Waiting, <<>>)

\* A withdrawal that is applied: Enter in phase Authenticated with a stated
\* amount within the inventory.
WithdrawalApplied ==
    WasAuthenticated /\ EnterPressed /\ HasAmount(R0) /\ AmountOf(R0) <= C0

\* C13: every call other than an applied withdrawal leaves cash_inside
\* unchanged.
C13_OnlyWithdrawalChangesCash ==
    (Called /\ ~WithdrawalApplied) => cash_inside = C0

\* C13 witness: a withdrawal above a non-empty inventory was rejected.
C13_Witness ==
    /\ WasAuthenticated /\ EnterPressed /\ HasAmount(R0)
    /\ AmountOf(R0) > C0 /\ C0 > 0
    /\ cash_inside = C0

\* C14: a key pressed in Waiting and a card swiped in Authenticated, the
\* pairs the transition table does not list, return the input state.
C14_UnlistedPairsNoOp ==
    ((WasWaiting /\ t[1] = "PressKey") \/ (WasAuthenticated /\ Swiped))
        => atm = starting_state

\* C14 witness: a card was swiped in Authenticated over a non-empty
\* register.
C14_Witness ==
    /\ WasAuthenticated /\ Swiped /\ R0 # <<>>
    /\ atm = starting_state

\* A well-formed Atm: an amount of the unsigned type, a phase, a key
\* sequence.
WellFormed(s) ==
    /\ s.cash_inside \in 0 .. U64_MAX
    /\ s.expected_pin_hash \in Auth
    /\ s.keystroke_register \in Seq(Key)

\* C15: next_state yields a well-formed state for every phase, register,
\* inventory and event: the result of every call, from every starting
\* state, is well-formed, and no event takes the inventory out of the
\* unsigned range.
C15_Total == Called => WellFormed(atm)

\* C15 witness: a call returned from the branch that subtracts, with the
\* whole inventory taken.
C15_Witness ==
    /\ WithdrawalApplied /\ AmountOf(R0) = C0 /\ C0 > 0
    /\ WellFormed(atm) /\ cash_inside = 0

\* C16: the amount computed from a register is the number written by the
\* digit keys that precede its first Enter, in order, when that number fits
\* the amount type; later keys are ignored, and a register with no digit
\* before its first Enter gives no amount.
C16_AmountIsDecimalBeforeEnter ==
    LET digits == BeforeEnter(keystroke_register)
        amount == calculate_withdrawal_amount(keystroke_register)
    IN  /\ digits = <<>> => amount = <<>>
        /\ (digits # <<>> /\ Decimal(digits) <= U64_MAX) => amount = <<Decimal(digits)>>

\* C16 witness: after a call, a register of two different digits gives its
\* two-digit number, first key most significant.
C16_Witness ==
    /\ Called
    /\ Len(keystroke_register) = 2
    /\ keystroke_register[1] \in Digits /\ keystroke_register[2] \in Digits
    /\ keystroke_register[1] # keystroke_register[2]
    /\ calculate_withdrawal_amount(keystroke_register)
          = <<10 * DigitOf(keystroke_register[1]) + DigitOf(keystroke_register[2])>>

\* A complete session as an observer saw it: a swipe in Waiting, PIN
\* digits, a verified Enter, amount digits, Enter, and no other card.
SessionComplete ==
    /\ session.stage = "done" /\ session.pure
    /\ session.pin_typed /\ session.amount # <<>>

\* C17: a complete session started with inventory C and amount digits D
\* ends in Waiting with an empty register and with the inventory lowered by
\* the number D writes when that is <= C, unchanged otherwise.
C17_SessionDeductsAmountDigits ==
    SessionComplete =>
        /\ expected_pin_hash = Waiting
        /\ keystroke_register = <<>>
        /\ cash_inside =
              IF Decimal(session.amount) <= session.cash
              THEN session.cash - Decimal(session.amount)
              ELSE session.cash

AtRest(s) == s.expected_pin_hash = Waiting /\ s.keystroke_register = <<>>

\* C19: from every state of a run from the initial state, Enter pressed at
\* most twice leads to rest: once from Authenticated, once or twice from
\* Authenticating, and a Waiting state is at rest already.
C19_EnterReachesWaiting ==
    LET s1 == next_state(atm, PressKeyOf("Enter"))
        s2 == next_state(s1, PressKeyOf("Enter"))
    IN  CASE expected_pin_hash = Authenticated -> AtRest(s1)
          [] expected_pin_hash[1] = "Authenticating" -> AtRest(s1) \/ AtRest(s2)
          [] OTHER -> AtRest(atm)

\* C19 witness: an Authenticating state from which the first Enter leads to
\* Authenticated and the second to rest.
C19_Witness ==
    /\ expected_pin_hash[1] = "Authenticating"
    /\ next_state(atm, PressKeyOf("Enter")).expected_pin_hash = Authenticated
    /\ AtRest(next_state(next_state(atm, PressKeyOf("Enter")), PressKeyOf("Enter")))

\* C20: Enter in phase Authenticated with digits that write a number above
\* the maximum of the amount type yields phase Waiting, an empty register
\* and cash_inside unchanged.
C20_OverflowRejected ==
    (WasAuthenticated /\ EnterPressed
        /\ BeforeEnter(R0) # <<>> /\ Decimal(BeforeEnter(R0)) > U64_MAX)
        => atm = Atm(C0, Waiting, <<>>)

====
